---- MODULE Spec2Model ----
(***************************************************************************)
(* The ECMA Object object built-in of JerryScript                          *)
(* (src/libecmabuiltins/ecma-builtin-object-object.c): the global pointer  *)
(* to the Object object and its reference counting, the lazy               *)
(* instantiation of the built-in's properties driven by the                *)
(* "non-instantiated" bit mask, and the dispatcher of built-in routines.   *)
(***************************************************************************)
EXTENDS Integers, Sequences, FiniteSets, TLC

(***************************************************************************)
(* Bounds of the model.                                                    *)
(***************************************************************************)
\* lazy instantiations explored per Object object under Spec
MaxInst == 3
\* ecma_builtin_get_object_object calls per Object object in a run
MaxGets == 3
\* number of ecma_builtin_init_object_object calls in a run
MaxInits == 2
\* longest argument list handed to the dispatcher
MaxArgs == 4
\* longest argument list of a call of a routine found by a property lookup
MaxCallArgs == 1
\* lazy instantiations explored per Object object under SpecDelete
MaxDeleteInst == 2
\* file descriptors a process may have open
MaxDescriptors == 5

(***************************************************************************)
(* Magic strings.  ecma_magic_string_id_t is declared in ecma-globals.h;   *)
(* the identifier of a magic string is its position in the enumeration.    *)
(* The enumeration lists the identifiers this module uses in ascending     *)
(* order together with identifiers that no Object property carries, below, *)
(* between and above them.                                                 *)
(***************************************************************************)
ecma_magic_string_id_t ==
  << "arguments", "prototype", "constructor", "length", "NaN",
     "getPrototypeOf", "getOwnPropertyDescriptor", "getOwnPropertyNames",
     "create", "defineProperty", "defineProperties", "seal", "freeze",
     "preventExtensions", "isSealed", "isFrozen", "isExtensible", "keys",
     "toString" >>

MagicIds == 0 .. (Len(ecma_magic_string_id_t) - 1)

MagicId(str) ==
  (CHOOSE i \in 1 .. Len(ecma_magic_string_id_t) : ecma_magic_string_id_t[i] = str) - 1

MagicString(id) == ecma_magic_string_id_t[id + 1]

ECMA_MAGIC_STRING_PROTOTYPE == MagicId("prototype")
ECMA_MAGIC_STRING_LENGTH == MagicId("length")
ECMA_MAGIC_STRING_GET_PROTOTYPE_OF_UL == MagicId("getPrototypeOf")
ECMA_MAGIC_STRING_GET_OWN_PROPERTY_DESCRIPTOR_UL == MagicId("getOwnPropertyDescriptor")
ECMA_MAGIC_STRING_GET_OWN_PROPERTY_NAMES_UL == MagicId("getOwnPropertyNames")
ECMA_MAGIC_STRING_CREATE == MagicId("create")
ECMA_MAGIC_STRING_DEFINE_PROPERTY_UL == MagicId("defineProperty")
ECMA_MAGIC_STRING_DEFINE_PROPERTIES_UL == MagicId("defineProperties")
ECMA_MAGIC_STRING_SEAL == MagicId("seal")
ECMA_MAGIC_STRING_FREEZE == MagicId("freeze")
ECMA_MAGIC_STRING_PREVENT_EXTENSIONS_UL == MagicId("preventExtensions")
ECMA_MAGIC_STRING_IS_SEALED_UL == MagicId("isSealed")
ECMA_MAGIC_STRING_IS_FROZEN_UL == MagicId("isFrozen")
ECMA_MAGIC_STRING_IS_EXTENSIBLE == MagicId("isExtensible")
ECMA_MAGIC_STRING_KEYS == MagicId("keys")

\* the property names a caller may ask for: every magic string and one
\* string that is not magic
NonMagicStrings == { "foo" }
PropertyNames == { ecma_magic_string_id_t[i] : i \in 1 .. Len(ecma_magic_string_id_t) }
                   \cup NonMagicStrings

\* ecma_is_string_magic (prop_name_p, &id): the set holding the identifier
\* of a magic string, the empty set for any other string
MagicIdsOfString ==
  [str \in PropertyNames |->
     { i - 1 : i \in { j \in 1 .. Len(ecma_magic_string_id_t) : ecma_magic_string_id_t[j] = str } }]

ecma_is_string_magic(str) == MagicIdsOfString[str]

(***************************************************************************)
(* List of the Object object's built-in property names (lines 45-62).      *)
(***************************************************************************)
mutant_property_names_unsorted ==
  << ECMA_MAGIC_STRING_PROTOTYPE,
     ECMA_MAGIC_STRING_LENGTH,
     ECMA_MAGIC_STRING_GET_PROTOTYPE_OF_UL,
     ECMA_MAGIC_STRING_GET_OWN_PROPERTY_DESCRIPTOR_UL,
     ECMA_MAGIC_STRING_GET_OWN_PROPERTY_NAMES_UL,
     ECMA_MAGIC_STRING_CREATE,
     ECMA_MAGIC_STRING_DEFINE_PROPERTY_UL,
     ECMA_MAGIC_STRING_DEFINE_PROPERTIES_UL,
     ECMA_MAGIC_STRING_FREEZE,
     ECMA_MAGIC_STRING_SEAL,
     ECMA_MAGIC_STRING_PREVENT_EXTENSIONS_UL,
     ECMA_MAGIC_STRING_IS_SEALED_UL,
     ECMA_MAGIC_STRING_IS_FROZEN_UL,
     ECMA_MAGIC_STRING_IS_EXTENSIBLE,
     ECMA_MAGIC_STRING_KEYS >>

ecma_builtin_object_property_names ==
  << ECMA_MAGIC_STRING_PROTOTYPE,
     ECMA_MAGIC_STRING_LENGTH,
     ECMA_MAGIC_STRING_GET_PROTOTYPE_OF_UL,
     ECMA_MAGIC_STRING_GET_OWN_PROPERTY_DESCRIPTOR_UL,
     ECMA_MAGIC_STRING_GET_OWN_PROPERTY_NAMES_UL,
     ECMA_MAGIC_STRING_CREATE,
     ECMA_MAGIC_STRING_DEFINE_PROPERTY_UL,
     ECMA_MAGIC_STRING_DEFINE_PROPERTIES_UL,
     ECMA_MAGIC_STRING_SEAL,
     ECMA_MAGIC_STRING_FREEZE,
     ECMA_MAGIC_STRING_PREVENT_EXTENSIONS_UL,
     ECMA_MAGIC_STRING_IS_SEALED_UL,
     ECMA_MAGIC_STRING_IS_FROZEN_UL,
     ECMA_MAGIC_STRING_IS_EXTENSIBLE,
     ECMA_MAGIC_STRING_KEYS >>

\* Number of the Object object's built-in properties (lines 67-68)
ecma_builtin_object_property_number == Len(ecma_builtin_object_property_names)

(***************************************************************************)
(* uint32_t values, as the set of the positions of their bits that are 1.  *)
(***************************************************************************)
\* sizeof (uint32_t) * JERRY_BITSINBYTE
UINT32_BITS == 32

Uint32Bits == 0 .. (UINT32_BITS - 1)

\* (uint32_t) 1u << n
ShiftLeftOne(n) == {n} \cap Uint32Bits

\* x - 1 in uint32_t arithmetic: 0 - 1 has every bit set
MinusOne(x) ==
  IF x = {}
    THEN Uint32Bits
    ELSE LET low == CHOOSE b \in x : \A c \in x : b <= c
         IN  (x \ {low}) \cup (0 .. (low - 1))

BitAnd(x, y) == x \cap y

BitNot(x) == Uint32Bits \ x

PopCount(x) == Cardinality(x)

(***************************************************************************)
(* ecma_builtin_bin_search_for_magic_string_id_in_array: binary search of  *)
(* key in the first array_length elements of ids (zero-based index of the  *)
(* element, -1 when the search does not find it).                          *)
(***************************************************************************)
RECURSIVE BinSearch(_, _, _, _)
BinSearch(ids, min, max, key) ==
  IF min > max
    THEN -1
    ELSE LET mid == (min + max) \div 2
         IN  IF ids[mid + 1] = key
               THEN mid
               ELSE IF ids[mid + 1] > key
                      THEN BinSearch(ids, min, mid - 1, key)
                      ELSE BinSearch(ids, mid + 1, max, key)

ecma_builtin_bin_search_for_magic_string_id_in_array(ids, array_length, key) ==
  BinSearch(ids, 0, array_length - 1, key)

(***************************************************************************)
(* Fatal conditions.  JERRY_ASSERT, JERRY_UNREACHABLE and                  *)
(* JERRY_UNIMPLEMENTED do not return: the engine stops at the first one.   *)
(***************************************************************************)
NoFatal == "none"
JERRY_ASSERT_FAIL == "assert"
JERRY_UNREACHABLE == "unreachable"
JERRY_UNIMPLEMENTED == "unimplemented"

NULL == 0

(***************************************************************************)
(* ecma-values.                                                            *)
(***************************************************************************)
NoObject ==
  [otype |-> "none", callable |-> FALSE, built_in_id |-> "", routine_id |-> -1]

ecma_make_simple_value(simple) ==
  [vtype |-> "simple", simple |-> simple, number |-> 0, object |-> NoObject]

ecma_make_number_value(num) ==
  [vtype |-> "number", simple |-> "", number |-> num, object |-> NoObject]

ecma_make_object_value(object) ==
  [vtype |-> "object", simple |-> "", number |-> 0, object |-> object]

ECMA_SIMPLE_VALUE_EMPTY == ecma_make_simple_value("empty")
ECMA_SIMPLE_VALUE_UNDEFINED == ecma_make_simple_value("undefined")
ECMA_SIMPLE_VALUE_NULL == ecma_make_simple_value("null")
ECMA_SIMPLE_VALUE_TRUE == ecma_make_simple_value("true")

ECMA_NUMBER_ONE == 1

\* ecma_builtin_make_function_object_for_routine (builtin_id, routine_id):
\* the Function object through which the routine is called
ecma_builtin_make_function_object_for_routine(builtin_id, routine_id) ==
  [otype |-> "function", callable |-> TRUE,
   built_in_id |-> builtin_id, routine_id |-> routine_id]

\* ecma_copy_value (value, false): the copy has the type and the contents of
\* the value it is made from
ecma_copy_value(value, is_ref) ==
  [vtype |-> value.vtype, simple |-> value.simple,
   number |-> value.number, object |-> value.object]

(***************************************************************************)
(* The property store of an object: its internal properties, a function    *)
(* from the internal property's identifier to its value, and its named     *)
(* properties.                                                             *)
(***************************************************************************)
ECMA_INTERNAL_PROPERTY_CLASS == "CLASS"
ECMA_INTERNAL_PROPERTY_BUILT_IN_ID == "BUILT_IN_ID"
ECMA_INTERNAL_PROPERTY_NON_INSTANTIATED_BUILT_IN_MASK_0_31 == "MASK_0_31"

NoInternal == [x \in {} |-> 0]

\* no object has been created yet
NoObjectYet ==
  [type |-> "none", extensible |-> FALSE, is_builtin |-> FALSE,
   may_ref_younger |-> FALSE, internal |-> NoInternal, props |-> {}]

\* ecma_create_object (NULL, true, ECMA_OBJECT_TYPE_FUNCTION)
ecma_create_object(extensible, type) ==
  [type |-> type, extensible |-> extensible, is_builtin |-> FALSE,
   may_ref_younger |-> FALSE, internal |-> NoInternal, props |-> {}]

\* ecma_create_internal_property followed by the assignment of its value
SetInternalProperty(object, id, value) ==
  [object EXCEPT !.internal =
     [x \in (DOMAIN object.internal) \cup {id} |->
        IF x = id THEN value ELSE object.internal[x]]]

ecma_get_internal_property(object, id) == object.internal[id]

\* ecma_find_named_property: the properties of that name (none: NULL)
ecma_find_named_property(object, name) ==
  { p \in object.props : p.name = name }

ECMA_PROPERTY_WRITABLE == TRUE
ECMA_PROPERTY_NOT_WRITABLE == FALSE
ECMA_PROPERTY_ENUMERABLE == TRUE
ECMA_PROPERTY_NOT_ENUMERABLE == FALSE
ECMA_PROPERTY_CONFIGURABLE == TRUE
ECMA_PROPERTY_NOT_CONFIGURABLE == FALSE

\* a named data property, created with the Empty value
NamedDataProperty(name, writable, enumerable, configurable) ==
  [name |-> name, kind |-> "data", writable |-> writable,
   enumerable |-> enumerable, configurable |-> configurable,
   value |-> ECMA_SIMPLE_VALUE_EMPTY]

(***************************************************************************)
(* State.                                                                  *)
(***************************************************************************)
VARIABLES
  ecma_object_object_p, \* the Object object: NULL or the object's number
  heap_objects,         \* number of objects ecma_create_object has made
  refs,                 \* reference counter of each object
  obj,                  \* contents of the most recently created Object object
  fatal,                \* the fatal condition the engine stopped at
  last,                 \* outcome of the last property lookup on the Object object
  created,              \* per name, the named properties created since init
  taken,                \* per object, the references ecma_builtin_get_object_object gave
  released,             \* per object, the references their holders released
  call,                 \* a call of the dispatcher or of the parameter counter
  routine,              \* what that call reached
  file_system,          \* the paths the kernel has a file at
  descriptors,          \* the file descriptors the process has open
  stream                \* the last call of fopen and what it returned

vars == << ecma_object_object_p, heap_objects, refs, obj, fatal, last,
           created, taken, released, call, routine,
           file_system, descriptors, stream >>

libcVars == << file_system, descriptors, stream >>

heapVars == << ecma_object_object_p, heap_objects, refs, obj, taken, released >>

Objects == 1 .. MaxInits

NoLookup == [name |-> "", via |-> "none", ret |-> {}]
NoCall == [fn |-> "none", id |-> -1, arguments_list |-> << >>]
NoRoutine == [done |-> FALSE, handler |-> "none", args |-> << >>, returned |-> {}]

Mask == ecma_get_internal_property(obj, ECMA_INTERNAL_PROPERTY_NON_INSTANTIATED_BUILT_IN_MASK_0_31)

(***************************************************************************)
(* A fatal condition ends the engine and, with it, its heap: the state     *)
(* after it holds the condition and what was observed of the calls made,   *)
(* nothing of the objects.                                                 *)
(***************************************************************************)
Stop(condition) ==
  /\ fatal' = condition
  /\ ecma_object_object_p' = NULL
  /\ heap_objects' = 0
  /\ refs' = [o \in Objects |-> 0]
  /\ obj' = NoObjectYet
  /\ taken' = [o \in Objects |-> 0]
  /\ released' = [o \in Objects |-> 0]

(***************************************************************************)
(* Reference counting (ecma-gc): ecma_ref_object, ecma_deref_object.       *)
(***************************************************************************)
ecma_ref_object(counters, object) ==
  [counters EXCEPT ![object] = @ + 1]

\* the counter after the release; the release of a counter that is already
\* zero is fatal
ecma_deref_object(counters, object) ==
  [fatal |-> IF counters[object] > 0 THEN NoFatal ELSE JERRY_ASSERT_FAIL,
   refs |-> IF counters[object] > 0
              THEN [counters EXCEPT ![object] = @ - 1]
              ELSE counters]

(***************************************************************************)
(* ecma_builtin_init_object_object (lines 110-136).                        *)
(***************************************************************************)
mutant_builtin_mask_one_bit_short ==
  MinusOne(ShiftLeftOne(ecma_builtin_object_property_number - 1))

\* uint32_t builtin_mask = ((uint32_t) 1u << property_number) - 1
builtin_mask == MinusOne(ShiftLeftOne(ecma_builtin_object_property_number))

InitializedObjectObject ==
  LET object_obj_p == ecma_create_object(TRUE, "ECMA_OBJECT_TYPE_FUNCTION")
      with_class == SetInternalProperty(object_obj_p, ECMA_INTERNAL_PROPERTY_CLASS,
                                        "ECMA_OBJECT_CLASS_OBJECT")
      with_id == SetInternalProperty(with_class, ECMA_INTERNAL_PROPERTY_BUILT_IN_ID,
                                     "ECMA_BUILTIN_ID_OBJECT")
      with_mask == SetInternalProperty(with_id,
                     ECMA_INTERNAL_PROPERTY_NON_INSTANTIATED_BUILT_IN_MASK_0_31,
                     builtin_mask)
  IN  [with_mask EXCEPT !.is_builtin = TRUE]

ecma_builtin_init_object_object ==
  /\ fatal = NoFatal
  /\ UNCHANGED libcVars
  /\ IF ecma_object_object_p # NULL
       THEN /\ Stop(JERRY_ASSERT_FAIL)
            /\ UNCHANGED << last, created, call, routine >>
       ELSE /\ heap_objects < MaxInits
            /\ heap_objects' = heap_objects + 1
            /\ refs' = [refs EXCEPT ![heap_objects + 1] = 1]
            /\ obj' = InitializedObjectObject
            /\ ecma_object_object_p' = heap_objects + 1
            /\ last' = NoLookup
            /\ created' = [n \in PropertyNames |-> 0]
            /\ UNCHANGED << fatal, taken, released, call, routine >>

(***************************************************************************)
(* ecma_builtin_get_object_object (lines 82-90).                           *)
(***************************************************************************)
mutant_get_without_ref(counters, object) == counters

GetObjectRefs(counters, object) == ecma_ref_object(counters, object)

ecma_builtin_get_object_object ==
  /\ fatal = NoFatal
  /\ UNCHANGED libcVars
  /\ IF ecma_object_object_p = NULL
       THEN /\ Stop(JERRY_ASSERT_FAIL)
            /\ UNCHANGED << last, created, call, routine >>
       ELSE /\ taken[ecma_object_object_p] < MaxGets
            /\ refs' = GetObjectRefs(refs, ecma_object_object_p)
            /\ taken' = [taken EXCEPT ![ecma_object_object_p] = @ + 1]
            /\ UNCHANGED << ecma_object_object_p, heap_objects, obj, fatal, last,
                            created, released, call, routine >>

(***************************************************************************)
(* A holder of a reference releases it: ecma_deref_object (object).        *)
(***************************************************************************)
DerefObject(object) ==
  /\ fatal = NoFatal
  /\ UNCHANGED libcVars
  /\ object <= heap_objects
  /\ \E r \in { ecma_deref_object(refs, object) } :
       IF r.fatal # NoFatal
         THEN Stop(r.fatal)
         ELSE /\ refs' = r.refs
              /\ released' = [released EXCEPT ![object] = @ + 1]
              /\ UNCHANGED << ecma_object_object_p, heap_objects, obj, fatal, taken >>
  /\ UNCHANGED << last, created, call, routine >>

(***************************************************************************)
(* ecma_builtin_finalize_object_object (lines 144-151).                    *)
(***************************************************************************)
\* ecma_object_object_p = NULL (line 150)
mutant_finalize_keeps_pointer == ecma_object_object_p

FinalizedPointer == NULL

ecma_builtin_finalize_object_object ==
  /\ fatal = NoFatal
  /\ UNCHANGED libcVars
  /\ IF ecma_object_object_p = NULL
       THEN Stop(JERRY_ASSERT_FAIL)
       ELSE \E r \in { ecma_deref_object(refs, ecma_object_object_p) } :
              IF r.fatal # NoFatal
                THEN Stop(r.fatal)
                ELSE /\ refs' = r.refs
                     /\ ecma_object_object_p' = FinalizedPointer
                     /\ UNCHANGED << heap_objects, obj, fatal, taken, released >>
  /\ UNCHANGED << last, created, call, routine >>

(***************************************************************************)
(* ecma_builtin_object_try_to_instantiate_property (lines 523-635).        *)
(***************************************************************************)
RoutineIds ==
  { ECMA_MAGIC_STRING_GET_PROTOTYPE_OF_UL,
    ECMA_MAGIC_STRING_GET_OWN_PROPERTY_NAMES_UL,
    ECMA_MAGIC_STRING_SEAL,
    ECMA_MAGIC_STRING_FREEZE,
    ECMA_MAGIC_STRING_PREVENT_EXTENSIONS_UL,
    ECMA_MAGIC_STRING_IS_SEALED_UL,
    ECMA_MAGIC_STRING_IS_FROZEN_UL,
    ECMA_MAGIC_STRING_IS_EXTENSIBLE,
    ECMA_MAGIC_STRING_KEYS,
    ECMA_MAGIC_STRING_GET_OWN_PROPERTY_DESCRIPTOR_UL,
    ECMA_MAGIC_STRING_CREATE,
    ECMA_MAGIC_STRING_DEFINE_PROPERTY_UL,
    ECMA_MAGIC_STRING_DEFINE_PROPERTIES_UL }

\* the switch (id) of lines 569-620: the value and the attributes of the
\* property to create, or the fatal condition the case stops at
mutant_length_writable(id) ==
  IF id \in RoutineIds
    THEN [fatal |-> NoFatal,
          value |-> ecma_make_object_value(
                      ecma_builtin_make_function_object_for_routine("ECMA_BUILTIN_ID_OBJECT", id)),
          writable |-> ECMA_PROPERTY_WRITABLE,
          enumerable |-> ECMA_PROPERTY_NOT_ENUMERABLE,
          configurable |-> ECMA_PROPERTY_CONFIGURABLE]
    ELSE [fatal |-> NoFatal,
          value |-> ecma_make_number_value(ECMA_NUMBER_ONE),
          writable |-> ECMA_PROPERTY_WRITABLE,
          enumerable |-> ECMA_PROPERTY_NOT_ENUMERABLE,
          configurable |-> ECMA_PROPERTY_CONFIGURABLE]

InstantiatedProperty(id) ==
  LET empty == [fatal |-> NoFatal,
                value |-> ECMA_SIMPLE_VALUE_EMPTY,
                writable |-> ECMA_PROPERTY_WRITABLE,
                enumerable |-> ECMA_PROPERTY_NOT_ENUMERABLE,
                configurable |-> ECMA_PROPERTY_CONFIGURABLE]
  IN  CASE id \in RoutineIds ->
             [empty EXCEPT
                !.value = ecma_make_object_value(
                            ecma_builtin_make_function_object_for_routine(
                              "ECMA_BUILTIN_ID_OBJECT", id))]
        [] id = ECMA_MAGIC_STRING_PROTOTYPE ->
             [empty EXCEPT !.fatal = JERRY_UNIMPLEMENTED]
        [] id = ECMA_MAGIC_STRING_LENGTH ->
             [empty EXCEPT
                !.value = ecma_make_number_value(ECMA_NUMBER_ONE),
                !.writable = ECMA_PROPERTY_NOT_WRITABLE,
                !.enumerable = ECMA_PROPERTY_NOT_ENUMERABLE,
                !.configurable = ECMA_PROPERTY_NOT_CONFIGURABLE]
        [] OTHER ->
             [empty EXCEPT !.fatal = JERRY_UNREACHABLE]

\* ecma_create_named_data_property: the object with the new property, whose
\* value is Empty, or the fatal condition of a name the object already has
\* a property of
ecma_create_named_data_property(object, name, writable, enumerable, configurable) ==
  IF ecma_find_named_property(object, name) # {}
    THEN [fatal |-> JERRY_ASSERT_FAIL, obj |-> object, ret |-> {}]
    ELSE LET prop_p == NamedDataProperty(name, writable, enumerable, configurable)
         IN  [fatal |-> NoFatal,
              obj |-> [object EXCEPT !.props = @ \cup {prop_p}],
              ret |-> {prop_p}]

\* ecma_gc_update_may_ref_younger_object_flag_by_value: the object may now
\* refer to an object made after it
ecma_gc_update_may_ref_younger_object_flag_by_value(object, value) ==
  [object EXCEPT !.may_ref_younger = @ \/ (value.vtype = "object")]

\* lines 622-634: the property is created, given the copy of the value and
\* returned
CreateInstantiatedProperty(object, prop_name_p, desc) ==
  LET c == ecma_create_named_data_property(object, prop_name_p, desc.writable,
                                           desc.enumerable, desc.configurable)
  IN  IF c.fatal # NoFatal
        THEN [fatal |-> c.fatal, obj |-> object, ret |-> {}, creations |-> 0]
        ELSE LET empty_p == CHOOSE p \in c.ret : TRUE
                 prop_p == [empty_p EXCEPT !.value = ecma_copy_value(desc.value, FALSE)]
                 stored == [c.obj EXCEPT !.props = (@ \ {empty_p}) \cup {prop_p}]
             IN  [fatal |-> NoFatal,
                  obj |-> ecma_gc_update_may_ref_younger_object_flag_by_value(
                            stored, prop_p.value),
                  ret |-> {prop_p},
                  creations |-> 1]

\* index == -1: the identifier is not in the table (line 541)
mutant_not_in_table_compares_zero(index) == index = 0

NotInTable(index) == index = -1

\* uint32_t bit = (uint32_t) 1u << index (line 548)
mutant_bit_of_next_index(index) == ShiftLeftOne(index + 1)

PropertyBit(index) == ShiftLeftOne(index)

\* bit_mask & bit: the property is not instantiated yet (line 555)
mutant_pending_test_inverted(bit_mask, bit) == BitAnd(bit_mask, bit) = {}

IsPending(bit_mask, bit) == BitAnd(bit_mask, bit) # {}

\* the mask with the bit of lines 548-562 cleared
mutant_mask_bit_kept(bit_mask, bit) == bit_mask

mutant_mask_clears_lower_bits(bit_mask, bit) == BitAnd(bit_mask, BitNot(MinusOne(bit) \cup bit))

\* bit_mask &= ~bit
ClearedMask(bit_mask, bit) == BitAnd(bit_mask, BitNot(bit))

\* the outcome of the call: the object afterwards, the fatal condition the
\* call stopped at, the property returned (none: NULL) and the number of
\* named properties it created
ecma_builtin_object_try_to_instantiate_property(object, prop_name_p) ==
  LET unchanged(f) == [fatal |-> f, obj |-> object, ret |-> {}, creations |-> 0]
      ids == ecma_is_string_magic(prop_name_p)
  IN  IF ecma_find_named_property(object, prop_name_p) # {}
        THEN unchanged(JERRY_ASSERT_FAIL)
      ELSE IF ids = {}
        THEN unchanged(NoFatal)
      ELSE
        LET id == CHOOSE i \in ids : TRUE
            index == ecma_builtin_bin_search_for_magic_string_id_in_array(
                       ecma_builtin_object_property_names,
                       ecma_builtin_object_property_number, id)
        IN  IF NotInTable(index)
              THEN unchanged(NoFatal)
            ELSE IF ~(index >= 0 /\ index < UINT32_BITS)
              THEN unchanged(JERRY_ASSERT_FAIL)
            ELSE
              LET bit == PropertyBit(index)
                  bit_mask == ecma_get_internal_property(object,
                                ECMA_INTERNAL_PROPERTY_NON_INSTANTIATED_BUILT_IN_MASK_0_31)
              IN  IF ~IsPending(bit_mask, bit)
                    THEN unchanged(NoFatal)
                  ELSE
                    LET masked == SetInternalProperty(object,
                                    ECMA_INTERNAL_PROPERTY_NON_INSTANTIATED_BUILT_IN_MASK_0_31,
                                    ClearedMask(bit_mask, bit))
                        desc == InstantiatedProperty(id)
                    IN  IF desc.fatal # NoFatal
                          THEN [fatal |-> desc.fatal, obj |-> masked,
                                ret |-> {}, creations |-> 0]
                          ELSE CreateInstantiatedProperty(masked, prop_name_p, desc)

(***************************************************************************)
(* A property lookup on the Object object: the direct lookup of the named  *)
(* property first, the lazy instantiation on a miss.  limit caps the       *)
(* number of mask bits a run clears on one object.                         *)
(***************************************************************************)
ClearedBits(object) ==
  ecma_builtin_object_property_number
    - PopCount(ecma_get_internal_property(object,
                 ECMA_INTERNAL_PROPERTY_NON_INSTANTIATED_BUILT_IN_MASK_0_31))

GetProperty(prop_name_p, limit) ==
  /\ fatal = NoFatal
  /\ UNCHANGED libcVars
  /\ ecma_object_object_p # NULL
  /\ LET found == ecma_find_named_property(obj, prop_name_p)
     IN  IF found # {}
           THEN /\ last' = [name |-> prop_name_p, via |-> "direct", ret |-> found]
                /\ UNCHANGED << heapVars, fatal, created >>
           ELSE \E r \in { ecma_builtin_object_try_to_instantiate_property(obj, prop_name_p) } :
                    /\ (r.obj # obj) => (ClearedBits(obj) < limit)
                    /\ last' = [name |-> prop_name_p, via |-> "lazy", ret |-> r.ret]
                    /\ created' = [created EXCEPT ![prop_name_p] = @ + r.creations]
                    /\ IF r.fatal # NoFatal
                         THEN Stop(r.fatal)
                         ELSE /\ obj' = r.obj
                              /\ UNCHANGED << ecma_object_object_p, heap_objects, refs,
                                              fatal, taken, released >>
  /\ UNCHANGED << call, routine >>

Lookup == \E name \in PropertyNames : GetProperty(name, MaxInst)

TableNames ==
  { MagicString(ecma_builtin_object_property_names[i]) :
      i \in 1 .. ecma_builtin_object_property_number }

\* the position of a name's identifier in the table, which is the position
\* of the name's bit in the mask
TableIndex(name) ==
  (CHOOSE i \in 1 .. ecma_builtin_object_property_number :
     ecma_builtin_object_property_names[i] = MagicId(name)) - 1

\* each name of the table is asked for once: a caller does not ask again
\* for a property it was given
LookupOnce ==
  \E name \in TableNames :
    /\ created[name] = 0
    /\ GetProperty(name, ecma_builtin_object_property_number)

(***************************************************************************)
(* The deletion of a named property of the Object object                   *)
(* (ecma_delete_property): the property leaves the object's list, the      *)
(* object's internal properties, its mask among them, are not touched.     *)
(***************************************************************************)
ecma_delete_property(object, prop_p) ==
  [object EXCEPT !.props = @ \ { prop_p }]

DeleteProperty(name) ==
  /\ fatal = NoFatal
  /\ ecma_object_object_p # NULL
  /\ \E prop_p \in ecma_find_named_property(obj, name) :
       obj' = ecma_delete_property(obj, prop_p)
  /\ UNCHANGED << ecma_object_object_p, heap_objects, refs, taken, released,
                  fatal, last, created, call, routine >>
  /\ UNCHANGED libcVars

Delete == \E name \in PropertyNames : DeleteProperty(name)

LookupOrDeleted == \E name \in PropertyNames : GetProperty(name, MaxDeleteInst)

(***************************************************************************)
(* The routines of the Object object (lines 205-394).  None is             *)
(* implemented: each stops at JERRY_UNIMPLEMENTED with its arguments.      *)
(***************************************************************************)
JERRY_UNIMPLEMENTED_REF_UNUSED_VARS(function, args) ==
  [handler |-> function, args |-> args, fatal |-> JERRY_UNIMPLEMENTED, returned |-> {}]

ecma_builtin_object_object_get_prototype_of(arg) ==
  JERRY_UNIMPLEMENTED_REF_UNUSED_VARS("ecma_builtin_object_object_get_prototype_of", << arg >>)

ecma_builtin_object_object_get_own_property_names(arg) ==
  JERRY_UNIMPLEMENTED_REF_UNUSED_VARS("ecma_builtin_object_object_get_own_property_names", << arg >>)

ecma_builtin_object_object_seal(arg) ==
  JERRY_UNIMPLEMENTED_REF_UNUSED_VARS("ecma_builtin_object_object_seal", << arg >>)

ecma_builtin_object_object_freeze(arg) ==
  JERRY_UNIMPLEMENTED_REF_UNUSED_VARS("ecma_builtin_object_object_freeze", << arg >>)

ecma_builtin_object_object_prevent_extensions(arg) ==
  JERRY_UNIMPLEMENTED_REF_UNUSED_VARS("ecma_builtin_object_object_prevent_extensions", << arg >>)

ecma_builtin_object_object_is_sealed(arg) ==
  JERRY_UNIMPLEMENTED_REF_UNUSED_VARS("ecma_builtin_object_object_is_sealed", << arg >>)

ecma_builtin_object_object_is_frozen(arg) ==
  JERRY_UNIMPLEMENTED_REF_UNUSED_VARS("ecma_builtin_object_object_is_frozen", << arg >>)

ecma_builtin_object_object_is_extensible(arg) ==
  JERRY_UNIMPLEMENTED_REF_UNUSED_VARS("ecma_builtin_object_object_is_extensible", << arg >>)

mutant_keys_returns_undefined(arg) ==
  [handler |-> "ecma_builtin_object_object_keys", args |-> << arg >>,
   fatal |-> NoFatal, returned |-> { ECMA_SIMPLE_VALUE_UNDEFINED }]

ecma_builtin_object_object_keys(arg) ==
  JERRY_UNIMPLEMENTED_REF_UNUSED_VARS("ecma_builtin_object_object_keys", << arg >>)

ecma_builtin_object_object_get_own_property_descriptor(arg1, arg2) ==
  JERRY_UNIMPLEMENTED_REF_UNUSED_VARS("ecma_builtin_object_object_get_own_property_descriptor",
                                      << arg1, arg2 >>)

ecma_builtin_object_object_create(arg1, arg2) ==
  JERRY_UNIMPLEMENTED_REF_UNUSED_VARS("ecma_builtin_object_object_create", << arg1, arg2 >>)

ecma_builtin_object_object_define_properties(arg1, arg2) ==
  JERRY_UNIMPLEMENTED_REF_UNUSED_VARS("ecma_builtin_object_object_define_properties",
                                      << arg1, arg2 >>)

ecma_builtin_object_object_define_property(arg1, arg2, arg3) ==
  JERRY_UNIMPLEMENTED_REF_UNUSED_VARS("ecma_builtin_object_object_define_property",
                                      << arg1, arg2, arg3 >>)

(***************************************************************************)
(* ecma_builtin_object_get_routine_parameters_number (lines 158-194).      *)
(***************************************************************************)
ecma_builtin_object_get_routine_parameters_number(builtin_routine_id) ==
  CASE builtin_routine_id \in
         { ECMA_MAGIC_STRING_GET_PROTOTYPE_OF_UL,
           ECMA_MAGIC_STRING_GET_OWN_PROPERTY_NAMES_UL,
           ECMA_MAGIC_STRING_SEAL,
           ECMA_MAGIC_STRING_FREEZE,
           ECMA_MAGIC_STRING_PREVENT_EXTENSIONS_UL,
           ECMA_MAGIC_STRING_IS_SEALED_UL,
           ECMA_MAGIC_STRING_IS_FROZEN_UL,
           ECMA_MAGIC_STRING_IS_EXTENSIBLE,
           ECMA_MAGIC_STRING_KEYS } ->
         [fatal |-> NoFatal, returned |-> {1}]
    [] builtin_routine_id \in
         { ECMA_MAGIC_STRING_GET_OWN_PROPERTY_DESCRIPTOR_UL,
           ECMA_MAGIC_STRING_CREATE,
           ECMA_MAGIC_STRING_DEFINE_PROPERTIES_UL } ->
         [fatal |-> NoFatal, returned |-> {2}]
    [] builtin_routine_id = ECMA_MAGIC_STRING_DEFINE_PROPERTY_UL ->
         [fatal |-> NoFatal, returned |-> {3}]
    [] OTHER ->
         [fatal |-> JERRY_UNREACHABLE, returned |-> {}]

(***************************************************************************)
(* ecma_builtin_object_dispatch_routine (lines 402-513).                   *)
(***************************************************************************)
\* arguments_number >= position ? arguments_list[position - 1] : value_undefined
mutant_argument_off_by_one(arguments_list, arguments_number, position) ==
  IF arguments_number > position
    THEN arguments_list[position]
    ELSE ecma_make_simple_value("undefined")

ArgumentOrUndefined(arguments_list, arguments_number, position) ==
  LET value_undefined == ecma_make_simple_value("undefined")
  IN  IF arguments_number >= position
        THEN arguments_list[position]
        ELSE value_undefined

\* the default case of the switch (lines 508-511)
mutant_default_returns_undefined ==
  [handler |-> "none", args |-> << >>, fatal |-> NoFatal,
   returned |-> { ECMA_SIMPLE_VALUE_UNDEFINED }]

DispatchDefault ==
  [handler |-> "none", args |-> << >>, fatal |-> JERRY_UNREACHABLE, returned |-> {}]

ecma_builtin_object_dispatch_routine(builtin_routine_id, arguments_list, arguments_number) ==
  LET arg1 == ArgumentOrUndefined(arguments_list, arguments_number, 1)
      arg2 == ArgumentOrUndefined(arguments_list, arguments_number, 2)
      arg3 == ArgumentOrUndefined(arguments_list, arguments_number, 3)
  IN  CASE builtin_routine_id = ECMA_MAGIC_STRING_GET_PROTOTYPE_OF_UL ->
             ecma_builtin_object_object_get_prototype_of(arg1)
        [] builtin_routine_id = ECMA_MAGIC_STRING_GET_OWN_PROPERTY_NAMES_UL ->
             ecma_builtin_object_object_get_own_property_names(arg1)
        [] builtin_routine_id = ECMA_MAGIC_STRING_SEAL ->
             ecma_builtin_object_object_seal(arg1)
        [] builtin_routine_id = ECMA_MAGIC_STRING_FREEZE ->
             ecma_builtin_object_object_freeze(arg1)
        [] builtin_routine_id = ECMA_MAGIC_STRING_PREVENT_EXTENSIONS_UL ->
             ecma_builtin_object_object_prevent_extensions(arg1)
        [] builtin_routine_id = ECMA_MAGIC_STRING_IS_SEALED_UL ->
             ecma_builtin_object_object_is_sealed(arg1)
        [] builtin_routine_id = ECMA_MAGIC_STRING_IS_FROZEN_UL ->
             ecma_builtin_object_object_is_frozen(arg1)
        [] builtin_routine_id = ECMA_MAGIC_STRING_IS_EXTENSIBLE ->
             ecma_builtin_object_object_is_extensible(arg1)
        [] builtin_routine_id = ECMA_MAGIC_STRING_KEYS ->
             ecma_builtin_object_object_keys(arg1)
        [] builtin_routine_id = ECMA_MAGIC_STRING_GET_OWN_PROPERTY_DESCRIPTOR_UL ->
             ecma_builtin_object_object_get_own_property_descriptor(arg1, arg2)
        [] builtin_routine_id = ECMA_MAGIC_STRING_CREATE ->
             ecma_builtin_object_object_create(arg1, arg2)
        [] builtin_routine_id = ECMA_MAGIC_STRING_DEFINE_PROPERTIES_UL ->
             ecma_builtin_object_object_define_properties(arg1, arg2)
        [] builtin_routine_id = ECMA_MAGIC_STRING_DEFINE_PROPERTY_UL ->
             ecma_builtin_object_object_define_property(arg1, arg2, arg3)
        [] OTHER -> DispatchDefault

(***************************************************************************)
(* Calls.  The values a caller passes, its argument lists, and the call of *)
(* a routine through the Function object a property lookup returned.       *)
(***************************************************************************)
ArgumentValues ==
  { ECMA_SIMPLE_VALUE_UNDEFINED, ECMA_SIMPLE_VALUE_NULL, ECMA_SIMPLE_VALUE_TRUE }

ArgumentLists(longest) ==
  UNION { [1 .. n -> ArgumentValues] : n \in 0 .. longest }

DispatchCall(id, arguments_list) ==
  \E r \in { ecma_builtin_object_dispatch_routine(id, arguments_list, Len(arguments_list)) } :
      /\ call' = [fn |-> "dispatch", id |-> id, arguments_list |-> arguments_list]
      /\ routine' = [done |-> TRUE, handler |-> r.handler, args |-> r.args,
                     returned |-> r.returned]
      /\ IF r.fatal # NoFatal
           THEN Stop(r.fatal)
           ELSE UNCHANGED << heapVars, fatal >>

CallRoutine ==
  /\ fatal = NoFatal
  /\ UNCHANGED libcVars
  /\ ecma_object_object_p # NULL
  /\ \E prop_p \in last.ret :
       /\ prop_p.value.vtype = "object"
       /\ prop_p.value.object.callable
       /\ prop_p.value.object.built_in_id = "ECMA_BUILTIN_ID_OBJECT"
       /\ \E arguments_list \in ArgumentLists(MaxCallArgs) :
            DispatchCall(prop_p.value.object.routine_id, arguments_list)
  /\ UNCHANGED << last, created >>

(***************************************************************************)
(* jerry-libc, target darwin (jerry-libc-target.c): fopen and fclose over  *)
(* the kernel's open and close.  syscall_3 and the kernel are outside the  *)
(* file: a call of open that succeeds returns the lowest descriptor the    *)
(* process has not open, a call that fails returns what the system call    *)
(* wrapper makes of the kernel's error, the negated error number, -1, or   *)
(* the error number, which is never the 0 of a descriptor.                 *)
(***************************************************************************)
ENOENT == 2
EACCES == 13
EMFILE == 24

Paths == { "present.js", "absent.js", "locked.js" }
InitialFiles == { "present.js", "locked.js" }
\* files the process has no permission to open
LockedFiles == { "locked.js" }

\* mode strings, as the sequence of their characters before the '\0'
Modes ==
  { << "r" >>, << "r", "+" >>, << "w" >>, << "w", "+" >>, << "a" >>,
    << "a", "+" >>, << "x" >>, << "r", "b" >> }

\* mode[i]
ModeChar(mode, i) == IF i < Len(mode) THEN mode[i + 1] ELSE "\\0"

Descriptors == 0 .. (MaxDescriptors - 1)

\* the value syscall_3 returns when the kernel fails the call with errno
FailedSyscall(errno) == { -errno, -1, errno }

\* the kernel's open: the error number of a failure, 0 when it succeeds
sys_open_errno(files, open, path, flags) ==
  IF path \notin files /\ "O_CREAT" \notin flags THEN ENOENT
  ELSE IF path \in LockedFiles THEN EACCES
  ELSE IF Descriptors \subseteq open THEN EMFILE
  ELSE 0

\* the lowest descriptor the process has not open
LowestFree(open) ==
  CHOOSE fd \in Descriptors \ open : \A other \in Descriptors \ open : fd <= other

\* uintptr_t: 64 bits, as four limbs of 16 bits, the lowest first
LimbBase == 65536

\* (uintptr_t) ret of a long int: the two's complement of a negative value
ToUintptr(ret) ==
  << ret % LimbBase,
     (ret \div LimbBase) % LimbBase,
     ((ret \div LimbBase) \div LimbBase) % LimbBase,
     (((ret \div LimbBase) \div LimbBase) \div LimbBase) % LimbBase >>

\* (long int) fp, for the pointers whose value fits the lowest limb
ToLong(fp) ==
  IF fp[2] = LimbBase - 1 /\ fp[3] = LimbBase - 1 /\ fp[4] = LimbBase - 1
    THEN fp[1] - LimbBase
    ELSE fp[1]

NullPointer == ToUintptr(NULL)

NoStream ==
  [called |-> FALSE, path |-> "", mode |-> << >>, flags |-> {},
   failed |-> FALSE, ret |-> 0, fp |-> NullPointer]

LIBC_ASSERT_FAIL == "libc assert"

\* the flags fopen opens the file with (lines 123-192): the empty set for
\* a mode an assertion stops at
FopenFlags(mode) ==
  LET second == ModeChar(mode, 1)
      may_read == CASE ModeChar(mode, 0) = "r" -> TRUE
                    [] ModeChar(mode, 0) = "w" -> second = "+"
                    [] OTHER -> FALSE
      may_write == CASE ModeChar(mode, 0) = "r" -> second = "+"
                     [] OTHER -> TRUE
      truncate == ModeChar(mode, 0) = "w"
      create_if_not_exist == ModeChar(mode, 0) \in { "w", "a" }
      position_at_end == ModeChar(mode, 0) = "a"
      supported == /\ second \in { "+", "\\0" }
                   /\ ModeChar(mode, 0) \in { "r", "w", "a" }
                   /\ ~(ModeChar(mode, 0) = "a" /\ second = "+")
  IN  IF ~supported
        THEN {}
        ELSE (IF may_read /\ ~may_write THEN { "O_RDONLY" }
              ELSE IF ~may_read /\ may_write THEN { "O_WRONLY" }
              ELSE { "O_RDWR" })
             \cup (IF truncate THEN { "O_TRUNC" } ELSE {})
             \cup (IF create_if_not_exist THEN { "O_CREAT" } ELSE {})
             \cup (IF position_at_end THEN { "O_APPEND" } ELSE {})

\* return (void *) (uintptr_t) (ret)
FopenReturn(ret) == ToUintptr(ret)

fopen(path, mode) ==
  /\ fatal = NoFatal
  /\ UNCHANGED << last, created, call, routine >>
  /\ \E flags \in { FopenFlags(mode) } :
       IF flags = {}
         THEN /\ Stop(LIBC_ASSERT_FAIL)
              /\ UNCHANGED libcVars
         ELSE \E errno \in { sys_open_errno(file_system, descriptors, path, flags) } :
                /\ UNCHANGED << heapVars, fatal >>
                /\ IF errno # 0
                     THEN /\ \E ret \in FailedSyscall(errno) :
                               stream' = [called |-> TRUE, path |-> path, mode |-> mode,
                                          flags |-> flags, failed |-> TRUE, ret |-> ret,
                                          fp |-> FopenReturn(ret)]
                          /\ UNCHANGED << file_system, descriptors >>
                     ELSE \E ret \in { LowestFree(descriptors) } :
                             /\ stream' = [called |-> TRUE, path |-> path, mode |-> mode,
                                           flags |-> flags, failed |-> FALSE, ret |-> ret,
                                           fp |-> FopenReturn(ret)]
                             /\ descriptors' = descriptors \cup { ret }
                             /\ file_system' = file_system \cup { path }

\* fclose (lines 216-222): the descriptor is closed, a failure of close is
\* not looked at
fclose(fp) ==
  /\ fatal = NoFatal
  /\ descriptors' = descriptors \ { ToLong(fp) }
  /\ UNCHANGED << heapVars, fatal, last, created, call, routine, file_system, stream >>

LibcInit ==
  /\ file_system = InitialFiles
  /\ descriptors = { 0, 1, 2 }
  /\ stream = NoStream

OpenFile == \E path \in Paths, mode \in Modes : fopen(path, mode)

CloseFile == \E fd \in descriptors : fclose(ToUintptr(fd))

NextLibc ==
  \/ OpenFile
  \/ CloseFile

(***************************************************************************)
(* Specifications of the Object object.                                    *)
(***************************************************************************)
Init ==
  /\ ecma_object_object_p = NULL
  /\ heap_objects = 0
  /\ refs = [o \in Objects |-> 0]
  /\ obj = NoObjectYet
  /\ fatal = NoFatal
  /\ last = NoLookup
  /\ created = [n \in PropertyNames |-> 0]
  /\ taken = [o \in Objects |-> 0]
  /\ released = [o \in Objects |-> 0]
  /\ call = NoCall
  /\ routine = NoRoutine
  /\ LibcInit

\* the properties of the Object object: its initialization and teardown,
\* the lookups of its properties and the calls of the routines they return
Next ==
  \/ ecma_builtin_init_object_object
  \/ ecma_builtin_finalize_object_object
  \/ Lookup
  \/ CallRoutine

Spec == Init /\ [][Next]_vars

\* the references to the Object object: every interleaving of
\* initialization, teardown, taking a reference and releasing one
NextRefs ==
  \/ ecma_builtin_init_object_object
  \/ ecma_builtin_get_object_object
  \/ \E object \in Objects : DerefObject(object)
  \/ ecma_builtin_finalize_object_object

SpecRefs == Init /\ [][NextRefs]_vars

\* the calls of the module's life cycle in every order, with the holders
\* of the references ecma_builtin_get_object_object gave releasing them
ReleaseReference ==
  \E object \in Objects :
    /\ released[object] < taken[object]
    /\ DerefObject(object)

NextProtocol ==
  \/ ecma_builtin_init_object_object
  \/ ecma_builtin_get_object_object
  \/ ReleaseReference
  \/ ecma_builtin_finalize_object_object

SpecProtocol == Init /\ [][NextProtocol]_vars

\* one Object object and every order of asking for its properties
InitializeOnce ==
  /\ ecma_object_object_p = NULL
  /\ ecma_builtin_init_object_object

NextLazy ==
  \/ InitializeOnce
  \/ LookupOnce

SpecLazy == Init /\ [][NextLazy]_vars

\* the properties of the Object object under deletion: its initialization
\* and teardown, the lookups and the deletions of its properties
NextDelete ==
  \/ ecma_builtin_init_object_object
  \/ ecma_builtin_finalize_object_object
  \/ LookupOrDeleted
  \/ Delete

SpecDelete == Init /\ [][NextDelete]_vars

\* the files of the process: every order of opening and closing them
SpecLibc == Init /\ [][NextLibc]_vars

(***************************************************************************)
(* Single calls of the module's functions: the dispatcher and the          *)
(* parameter counter on every identifier and argument list, the search of  *)
(* the property names' table for every identifier.                         *)
(***************************************************************************)
Calls ==
  { [fn |-> "dispatch", id |-> id, arguments_list |-> list] :
      id \in MagicIds, list \in ArgumentLists(MaxArgs) }
  \cup { [fn |-> "parameters_number", id |-> id, arguments_list |-> << >>] : id \in MagicIds }
  \cup { [fn |-> "search", id |-> id, arguments_list |-> << >>] : id \in MagicIds }

InitCalls ==
  /\ ecma_object_object_p = NULL
  /\ heap_objects = 0
  /\ refs = [o \in Objects |-> 0]
  /\ obj = NoObjectYet
  /\ fatal = NoFatal
  /\ last = NoLookup
  /\ created = [n \in PropertyNames |-> 0]
  /\ taken = [o \in Objects |-> 0]
  /\ released = [o \in Objects |-> 0]
  /\ call \in Calls
  /\ routine = NoRoutine
  /\ LibcInit

DispatchRoutine ==
  /\ fatal = NoFatal
  /\ UNCHANGED libcVars
  /\ ~routine.done
  /\ call.fn = "dispatch"
  /\ DispatchCall(call.id, call.arguments_list)
  /\ UNCHANGED << last, created >>

GetRoutineParametersNumber ==
  /\ fatal = NoFatal
  /\ UNCHANGED libcVars
  /\ ~routine.done
  /\ call.fn = "parameters_number"
  /\ \E r \in { ecma_builtin_object_get_routine_parameters_number(call.id) } :
       /\ routine' = [done |-> TRUE, handler |-> "none", args |-> << >>,
                      returned |-> r.returned]
       /\ IF r.fatal # NoFatal
            THEN Stop(r.fatal)
            ELSE UNCHANGED << heapVars, fatal >>
  /\ UNCHANGED << last, created, call >>

SearchPropertyNames ==
  /\ fatal = NoFatal
  /\ UNCHANGED libcVars
  /\ ~routine.done
  /\ call.fn = "search"
  /\ routine' = [done |-> TRUE, handler |-> "none", args |-> << >>,
                 returned |-> { ecma_builtin_bin_search_for_magic_string_id_in_array(
                                  ecma_builtin_object_property_names,
                                  ecma_builtin_object_property_number, call.id) }]
  /\ UNCHANGED << heapVars, fatal, last, created, call >>

NextCalls ==
  \/ DispatchRoutine
  \/ GetRoutineParametersNumber
  \/ SearchPropertyNames

SpecCalls == InitCalls /\ [][NextCalls]_vars

(***************************************************************************)
(* Properties.                                                             *)
(***************************************************************************)

\* C1: lazy instantiation is idempotent.  For every name of the table, in
\* any sequence of lookups on the initialized Object object (the direct
\* lookup first, the lazy instantiation only on a miss), the name is
\* materialized at most once; while the engine runs, a name that has been
\* asked for has been materialized exactly once and the lookup returned the
\* one property of that name; and a request for a name that is already
\* materialized is answered by the direct lookup, creating nothing and
\* leaving the object, its mask included, as it was.
C1_LazyInstantiationIdempotent ==
  /\ [](\A name \in TableNames :
          /\ created[name] <= 1
          /\ (fatal = NoFatal /\ last.name = name) =>
               /\ created[name] = 1
               /\ Cardinality(last.ret) = 1
               /\ last.ret = ecma_find_named_property(obj, name))
  /\ [][\A name \in TableNames :
          (created[name] = 1 /\ GetProperty(name, MaxInst)) =>
             /\ last'.via = "direct"
             /\ last'.ret = ecma_find_named_property(obj, name)
             /\ created' = created
             /\ obj' = obj
             /\ fatal' = NoFatal]_vars

\* a name is asked for a second time and the direct lookup answers
C1_SecondRequestAnsweredDirectly ==
  /\ fatal = NoFatal
  /\ last.name = "keys"
  /\ last.via = "direct"
  /\ created["keys"] = 1
  /\ last.ret = ecma_find_named_property(obj, "keys")
  /\ last.ret # {}

C3_RoutinePropertyInstantiated ==
  LET routines == { "getPrototypeOf", "getOwnPropertyDescriptor",
                    "getOwnPropertyNames", "create", "defineProperty",
                    "defineProperties", "seal", "freeze", "preventExtensions",
                    "isSealed", "isFrozen", "isExtensible", "keys" }
      function(name) ==
        [otype |-> "function", callable |-> TRUE,
         built_in_id |-> "ECMA_BUILTIN_ID_OBJECT", routine_id |-> MagicId(name)]
      property(name) ==
        [name |-> name, kind |-> "data", writable |-> TRUE,
         enumerable |-> FALSE, configurable |-> TRUE,
         value |-> [vtype |-> "object", simple |-> "", number |-> 0,
                    object |-> function(name)]]
      instantiated == { name \in TableNames : created[name] = 1 }
  IN  /\ Cardinality(routines) = 13
      /\ routines \subseteq TableNames
      /\ \A name \in routines :
           (fatal = NoFatal /\ last.name = name /\ last.via = "lazy") =>
              /\ last.ret = { property(name) }
              /\ ecma_find_named_property(obj, name) = { property(name) }
              /\ created[name] = 1
              /\ TableIndex(name) \notin Mask
      /\ (fatal = NoFatal /\ obj # NoObjectYet) =>
           /\ Mask = (0 .. 14) \ { TableIndex(name) : name \in instantiated }
           /\ (Cardinality(instantiated) = 1) => (PopCount(Mask) = 14)

\* the first request of the Object object, for "keys", made the property
C3_KeysInstantiatedFirst ==
  /\ fatal = NoFatal
  /\ last.name = "keys"
  /\ last.via = "lazy"
  /\ last.ret # {}
  /\ \A p \in last.ret : p.value.vtype = "object" /\ p.value.object.callable
  /\ PopCount(Mask) = 14

\* C4: the request of "length" while its bit is set yields a data property
\* that is not writable, not enumerable and not configurable, whose value
\* is the Number 1.
C4_LengthProperty ==
  LET length == [name |-> "length", kind |-> "data", writable |-> FALSE,
                 enumerable |-> FALSE, configurable |-> FALSE,
                 value |-> [vtype |-> "number", simple |-> "", number |-> 1,
                            object |-> NoObject]]
  IN  (fatal = NoFatal /\ last.name = "length") =>
         /\ last.ret = { length }
         /\ ecma_find_named_property(obj, "length") = { length }
         /\ created["length"] = 1
         /\ TableIndex("length") \notin Mask

\* "length" was asked for while its bit was set
C4_LengthInstantiated ==
  /\ fatal = NoFatal
  /\ last.name = "length"
  /\ last.via = "lazy"
  /\ \E p \in last.ret : p.value.vtype = "number" /\ p.value.number = 1

\* C5: the request of a name that is not in the table, a magic string
\* outside the table or a string that is not magic, returns NULL and leaves
\* the mask and the object's properties unchanged; nothing is ever created
\* under such a name.
C5_NameOutsideTable ==
  /\ [](\A name \in PropertyNames \ TableNames :
          /\ created[name] = 0
          /\ (last.name = name) => (last.via = "lazy" /\ last.ret = {}))
  /\ [][\A name \in PropertyNames \ TableNames :
          GetProperty(name, MaxInst) =>
             /\ last' = [name |-> name, via |-> "lazy", ret |-> {}]
             /\ obj' = obj
             /\ Mask' = Mask
             /\ obj'.props = obj.props
             /\ created' = created
             /\ fatal' = NoFatal]_vars

\* "toString" was asked for of an Object object that has a property
C5_ToStringNotFound ==
  /\ fatal = NoFatal
  /\ last = [name |-> "toString", via |-> "lazy", ret |-> {}]
  /\ obj.props # {}
  /\ PopCount(Mask) < 15

\* C6: the dispatcher hands the handler of a routine of k parameters, at
\* each position j of 1 .. k, the j-th element of the argument list when
\* the list has at least j elements and Undefined otherwise, whatever the
\* length of the list: arguments beyond the k-th are not passed.
C6_ArgumentsDefaultToUndefined ==
  (routine.done /\ call.fn = "dispatch") =>
     LET parameters == ecma_builtin_object_get_routine_parameters_number(call.id)
     IN  (parameters.fatal = NoFatal) =>
            \E k \in parameters.returned :
               /\ k \in 1 .. 3
               /\ Len(routine.args) = k
               /\ \A j \in 1 .. k :
                    routine.args[j] =
                      IF Len(call.arguments_list) >= j
                        THEN call.arguments_list[j]
                        ELSE [vtype |-> "simple", simple |-> "undefined",
                              number |-> 0, object |-> NoObject]

\* a routine of two parameters is called with no argument
C6_TwoParametersNoArgument ==
  /\ routine.done
  /\ call.fn = "dispatch"
  /\ call.id = MagicId("create")
  /\ call.arguments_list = << >>
  /\ routine.handler = "ecma_builtin_object_object_create"
  /\ routine.args = << ECMA_SIMPLE_VALUE_UNDEFINED, ECMA_SIMPLE_VALUE_UNDEFINED >>

\* C7: the dispatcher routes the identifier of each of the 13 routines to
\* the one handler of that name; any other identifier, those of
\* "prototype" and "length" included, stops at JERRY_UNREACHABLE, with no
\* handler reached and nothing returned, in the dispatcher and in the
\* parameter counter alike.
C7_DispatchRoutesToNamedHandler ==
  LET handlers ==
        [getPrototypeOf |-> "ecma_builtin_object_object_get_prototype_of",
         getOwnPropertyDescriptor |-> "ecma_builtin_object_object_get_own_property_descriptor",
         getOwnPropertyNames |-> "ecma_builtin_object_object_get_own_property_names",
         create |-> "ecma_builtin_object_object_create",
         defineProperty |-> "ecma_builtin_object_object_define_property",
         defineProperties |-> "ecma_builtin_object_object_define_properties",
         seal |-> "ecma_builtin_object_object_seal",
         freeze |-> "ecma_builtin_object_object_freeze",
         preventExtensions |-> "ecma_builtin_object_object_prevent_extensions",
         isSealed |-> "ecma_builtin_object_object_is_sealed",
         isFrozen |-> "ecma_builtin_object_object_is_frozen",
         isExtensible |-> "ecma_builtin_object_object_is_extensible",
         keys |-> "ecma_builtin_object_object_keys"]
      name == MagicString(call.id)
  IN  /\ (routine.done /\ call.fn = "dispatch") =>
           IF name \in DOMAIN handlers
             THEN /\ routine.handler = handlers[name]
                  /\ fatal # JERRY_UNREACHABLE
             ELSE /\ fatal = JERRY_UNREACHABLE
                  /\ routine.handler = "none"
                  /\ routine.returned = {}
      /\ (routine.done /\ call.fn = "parameters_number") =>
           IF name \in DOMAIN handlers
             THEN fatal = NoFatal /\ routine.returned # {}
             ELSE fatal = JERRY_UNREACHABLE /\ routine.returned = {}

\* the dispatcher is called with the identifier of "length"
C7_LengthIsUnreachable ==
  /\ routine.done
  /\ call.fn = "dispatch"
  /\ call.id = MagicId("length")
  /\ fatal = JERRY_UNREACHABLE
  /\ routine.handler = "none"

\* C8: every algorithm the module leaves unimplemented stops at
\* JERRY_UNIMPLEMENTED at its first use: a call that reaches one of the 13
\* handlers returns no completion value, and the request of "prototype"
\* creates and returns no property.
C8_UnimplementedIsFatal ==
  /\ (routine.done /\ routine.handler # "none") =>
        /\ fatal = JERRY_UNIMPLEMENTED
        /\ routine.returned = {}
  /\ (last.name = "prototype") =>
        /\ fatal = JERRY_UNIMPLEMENTED
        /\ last.ret = {}
        /\ created["prototype"] = 0

\* the routine the lookup of "keys" returned is called
C8_KeysCalled ==
  /\ last.name = "keys"
  /\ call.fn = "dispatch"
  /\ routine.done
  /\ routine.handler = "ecma_builtin_object_object_keys"
  /\ fatal = JERRY_UNIMPLEMENTED

\* C9: the reference counter of the Object object.  While the engine runs,
\* the counter of an object is the reference of ecma_object_object_p, when
\* it points to the object, plus the references
\* ecma_builtin_get_object_object gave, one for each call, less those
\* released; it is never below zero; after the finalization of an object
\* whose every given reference was released it is zero; and the release of
\* a counter that is zero stops at the assertion.
C9_RefcountLifecycle ==
  /\ [](fatal = NoFatal =>
          \A object \in 1 .. heap_objects :
             /\ refs[object] >= 0
             /\ refs[object] = (IF ecma_object_object_p = object THEN 1 ELSE 0)
                                 + taken[object] - released[object]
             /\ (ecma_object_object_p # object /\ taken[object] = released[object])
                   => (refs[object] = 0))
  /\ [][\A object \in Objects :
          /\ (ecma_builtin_get_object_object /\ ecma_object_object_p = object)
                => (refs'[object] = refs[object] + 1)
          /\ (DerefObject(object) /\ refs[object] = 0)
                => (fatal' = JERRY_ASSERT_FAIL)
          /\ (DerefObject(object) /\ refs[object] > 0)
                => (refs'[object] = refs[object] - 1 /\ fatal' = NoFatal)]_vars

\* two references were taken and released, and the object was finalized
C9_ReleasedAndFinalized ==
  /\ fatal = NoFatal
  /\ ecma_object_object_p = NULL
  /\ heap_objects = 1
  /\ taken[1] = 2
  /\ released[1] = 2
  /\ refs[1] = 0

C11_FopenNullOnFailure ==
  (stream.called /\ stream.failed) => (stream.fp = NullPointer)

\* C12: a bit of the mask, once cleared, is never set again.  Between the
\* initialization of an Object object and its finalization, whatever the
\* lookups, instantiations and deletions, every step leaves the mask a
\* subset of what it was; no table name is synthesized twice; and the
\* lookup of a table name whose bit is clear and whose property was
\* deleted goes through the lazy instantiation, which returns NULL and
\* leaves the mask and the properties of the object as they were.
C12_ClearedBitStaysClear ==
  /\ [](\A name \in TableNames : created[name] <= 1)
  /\ [][(/\ fatal = NoFatal /\ fatal' = NoFatal
         /\ ecma_object_object_p # NULL
         /\ ecma_object_object_p' = ecma_object_object_p)
            => (Mask' \subseteq Mask)]_vars
  /\ [][\A name \in TableNames \cap { last'.name } :
          (/\ ecma_object_object_p # NULL
           /\ TableIndex(name) \notin Mask
           /\ ecma_find_named_property(obj, name) = {}
           /\ GetProperty(name, MaxDeleteInst)) =>
             /\ last' = [name |-> name, via |-> "lazy", ret |-> {}]
             /\ Mask' = Mask
             /\ obj'.props = obj.props
             /\ obj' = obj
             /\ created' = created
             /\ fatal' = NoFatal]_vars

\* "keys" was materialized, deleted and asked for again
C12_DeletedNotResynthesized ==
  /\ fatal = NoFatal
  /\ ecma_object_object_p # NULL
  /\ last = [name |-> "keys", via |-> "lazy", ret |-> {}]
  /\ created["keys"] = 1
  /\ ecma_find_named_property(obj, "keys") = {}
  /\ TableIndex("keys") \notin Mask

\* C14: the protocol of ecma_object_object_p.  In every interleaving of
\* the calls, ecma_builtin_init_object_object made while the pointer is
\* NULL leaves it pointing to a new object that holds one reference, and
\* made while it is not NULL stops at the assertion;
\* ecma_builtin_get_object_object and ecma_builtin_finalize_object_object
\* made while the pointer is NULL, before the first initialization or
\* after a finalization, stop at the assertion; made while it is not NULL,
\* the first leaves the pointer alone and the second releases the
\* pointer's reference and sets the pointer to NULL, after which the
\* initialization is possible again.
C14_InitTeardownProtocol ==
  /\ [](ecma_object_object_p # NULL =>
          (fatal = NoFatal /\ refs[ecma_object_object_p] >= 1))
  /\ [][/\ ecma_builtin_init_object_object =>
             IF ecma_object_object_p = NULL
               THEN /\ fatal' = NoFatal
                    /\ ecma_object_object_p' # NULL
                    /\ ecma_object_object_p' = heap_objects'
                    /\ heap_objects' = heap_objects + 1
                    /\ refs'[ecma_object_object_p'] = 1
               ELSE fatal' = JERRY_ASSERT_FAIL
        /\ ecma_builtin_get_object_object =>
             IF ecma_object_object_p # NULL
               THEN /\ fatal' = NoFatal
                    /\ ecma_object_object_p' = ecma_object_object_p
               ELSE fatal' = JERRY_ASSERT_FAIL
        /\ ecma_builtin_finalize_object_object =>
             IF ecma_object_object_p # NULL
               THEN /\ fatal' = NoFatal
                    /\ ecma_object_object_p' = NULL
                    /\ refs'[ecma_object_object_p] = refs[ecma_object_object_p] - 1
               ELSE fatal' = JERRY_ASSERT_FAIL]_vars

\* the Object object is initialized again after its finalization
C14_InitializedAgain ==
  /\ fatal = NoFatal
  /\ heap_objects = 2
  /\ ecma_object_object_p = 2
  /\ refs[2] = 1

\* C15: the Object object has at most one property of a name.  After any
\* sequence of lookups, lazy instantiations and deletions no name has two
\* properties and no name was created while the object had a property of
\* it; a table name whose bit is set in the mask has no property; and no
\* lookup stops at the assertions of the lazy instantiation and of the
\* creation that the name has no property yet.
C15_OnePropertyPerName ==
  /\ [](\A name \in PropertyNames :
          /\ Cardinality(ecma_find_named_property(obj, name)) <= 1
          /\ Cardinality(ecma_find_named_property(obj, name)) <= created[name]
          /\ (/\ fatal = NoFatal
              /\ obj # NoObjectYet
              /\ name \in TableNames
              /\ TableIndex(name) \in Mask)
                => (ecma_find_named_property(obj, name) = {} /\ created[name] = 0))
  /\ [][\A name \in PropertyNames \cap { last'.name } :
          GetProperty(name, MaxDeleteInst) => (fatal' # JERRY_ASSERT_FAIL)]_vars

\* "keys" and "length" were instantiated and "keys" was deleted: "length"
\* is the one property left
C15_OneLeftAfterDeletion ==
  /\ fatal = NoFatal
  /\ ecma_object_object_p # NULL
  /\ created["keys"] = 1
  /\ created["length"] = 1
  /\ ecma_find_named_property(obj, "keys") = {}
  /\ Cardinality(ecma_find_named_property(obj, "length")) = 1
  /\ Cardinality(obj.props) = 1

====
